---- MODULE Spec2Model ----
(***************************************************************************)
(* Model of the GOFA orchestration glue:                                   *)
(*   src/tasks/task_wrapper.py          GOFATaskWrapper and its pretrain   *)
(*                                      subclass (argument broadcasting,   *)
(*                                      flat index over the tasks)         *)
(*   src/gp/lightning/module_template.py ExpConfig and BaseTemplate        *)
(*                                      (state-name setters, training      *)
(*                                      step, epoch-end hooks)             *)
(*                                                                         *)
(* Python values are modelled as records [kind, atom, items]:              *)
(*   None, a str, an atom (a number, bool or callable) or a list.          *)
(* numpy arrays are sequences; position g of an array is element g + 1 of  *)
(* the sequence.                                                           *)
(***************************************************************************)
EXTENDS Integers, Sequences, FiniteSets, TLC

\* ------------------------------------------------------------------ bounds
MaxTasks == 3
MaxSize == 2
MaxEpochSteps == 2

\* ----------------------------------------------------------- Python values
None == [kind |-> "none", atom |-> "", items |-> <<>>]
Atom(a) == [kind |-> "atom", atom |-> a, items |-> <<>>]
Str(a) == [kind |-> "str", atom |-> a, items |-> <<>>]
List(s) == [kind |-> "list", atom |-> "", items |-> s]

IsList(v) == v.kind = "list"
IsNone(v) == v.kind = "none"
\* isinstance(v, str)
IsStr(v) == v.kind = "str"

\* A raised exception, as the result of a call.
Raised(cls) == [kind |-> "raise", atom |-> cls, items |-> <<>>]
IsRaised(v) == v.kind = "raise"

\* [values for _ in range(num_task)]
Replicate(v, n) == [i \in 1..n |-> v]

\* ------------------------------------------- GOFATaskWrapper argument parsing
\* __parse_input_args__(values, num_task, is_list, default_none)
ParseInputArgsDropAssert(values, num_task, is_list, default_none) ==
    IF default_none /\ IsNone(values) THEN List(Replicate(None, num_task))
    ELSE IF is_list
    THEN IF IsStr(values)
         THEN IF values.atom = "" THEN Raised("IndexError")
              ELSE List(Replicate(values, num_task))
         ELSE IF ~IsList(values) THEN Raised("TypeError")
         ELSE IF Len(values.items) = 0 THEN Raised("IndexError")
         ELSE IF IsList(values.items[1]) THEN values
         ELSE List(Replicate(values, num_task))
    ELSE IF IsList(values) THEN values
         ELSE List(Replicate(values, num_task))

ParseInputArgsShort(values, num_task, is_list, default_none) ==
    IF default_none /\ IsNone(values) THEN List(Replicate(None, num_task))
    ELSE IF is_list
    THEN IF IsStr(values)
         THEN IF values.atom = "" THEN Raised("IndexError")
              ELSE List(Replicate(values, num_task))
         ELSE IF ~IsList(values) THEN Raised("TypeError")
         ELSE IF Len(values.items) = 0 THEN Raised("IndexError")
         ELSE IF IsList(values.items[1])
              THEN IF Len(values.items) = num_task THEN values
                   ELSE Raised("AssertionError")
         ELSE List(Replicate(values, num_task))
    ELSE IF IsList(values)
         THEN IF Len(values.items) = num_task THEN values
              ELSE Raised("AssertionError")
         ELSE List(Replicate(values, IF num_task > 1 THEN num_task - 1 ELSE num_task))

ParseInputArgs(values, num_task, is_list, default_none) ==
    IF default_none /\ IsNone(values) THEN List(Replicate(None, num_task))
    ELSE IF is_list
    THEN \* values[0] is evaluated first: it needs a subscriptable, non-empty
         \* value; the first character of a str is a str, not a list
         IF IsStr(values)
         THEN IF values.atom = "" THEN Raised("IndexError")
              ELSE List(Replicate(values, num_task))
         ELSE IF ~IsList(values) THEN Raised("TypeError")
         ELSE IF Len(values.items) = 0 THEN Raised("IndexError")
         ELSE IF IsList(values.items[1])
              THEN IF Len(values.items) = num_task THEN values
                   ELSE Raised("AssertionError")
         ELSE List(Replicate(values, num_task))
    ELSE IF IsList(values)
         THEN IF Len(values.items) = num_task THEN values
              ELSE Raised("AssertionError")
         ELSE List(Replicate(values, num_task))

\* ------------------------------------------------------- numpy index helpers
RECURSIVE Sum(_)
Sum(s) == IF Len(s) = 0 THEN 0 ELSE s[1] + Sum(Tail(s))

\* np.arange(n)
Arange(n) == [i \in 1..n |-> i - 1]

\* a.repeat(counts): element i of a, counts[i] times, in order
RECURSIVE Repeat(_, _)
Repeat(a, counts) ==
    IF Len(a) = 0 THEN <<>>
    ELSE Replicate(a[1], counts[1]) \o Repeat(Tail(a), Tail(counts))

\* np.concatenate(arrays)
RECURSIVE Concatenate(_)
Concatenate(arrays) ==
    IF Len(arrays) = 0 THEN <<>>
    ELSE arrays[1] \o Concatenate(Tail(arrays))

\* np.cumsum(a)
Cumsum(a) == [i \in 1..Len(a) |-> Sum(SubSeq(a, 1, i))]

\* self.ind2task = np.arange(self.num_tasks).repeat(self.task_sizes)
Ind2TaskNoRepeat(sizes) == Repeat(Arange(Len(sizes)), [i \in 1..Len(sizes) |-> IF sizes[i] = 0 THEN 1 ELSE sizes[i]])
Ind2Task(sizes) == Repeat(Arange(Len(sizes)), sizes)

\* self.sample_ind = np.concatenate([np.arange(size) for size in self.task_sizes])
SampleIndGlobal(sizes) == Arange(Sum(sizes))
SampleInd(sizes) == Concatenate([i \in 1..Len(sizes) |-> Arange(sizes[i])])

\* self.size_seg = np.cumsum(self.task_sizes)
SizeSeg(sizes) == Cumsum(sizes)

\* self.data_start_index = np.r_[0, self.size_seg[:-1]]
DataStartIndex(sizes) == <<0>> \o SubSeq(Cumsum(sizes), 1, Len(sizes) - 1)

\* ------------------------------------------------------------------- state
VARIABLES
    call,        \* the last __parse_input_args__ call: its arguments and result
    wrapper,     \* the GOFAPretrainTaskWrapper instance (fields of self)
    item,        \* outcome of the last wrapper[index]
    len_result,  \* outcome of the last len(wrapper), -1 before any
    cfg,         \* the ExpConfig instance (fields of self)
    last_set,    \* the last assignment to a state-name property
    kit,         \* the EvalKit collaborator: eval states and what they accumulated
    trainer,     \* the BaseTemplate as driven by the training loop
    last_step,   \* outcome of the last training_step
    calls,       \* the collaborator calls made by the last epoch-end hook
    optim        \* outcome of the last configure_optimizers

wvars == <<call, wrapper, item, len_result>>
tvars == <<cfg, last_set, kit, trainer, last_step, calls, optim>>
vars == <<call, wrapper, item, len_result, cfg, last_set, kit, trainer, last_step, calls, optim>>

\* --------------------------------------------------- argument parsing inputs
ArgAtoms == {"3", "5"}
FlatLists == {List(s) : s \in UNION {[1..k -> {Atom(a) : a \in ArgAtoms}] : k \in 0..MaxTasks}}
NestedLists == {List(s) : s \in UNION {[1..k -> {List(<<>>), List(<<Atom("3")>>)}] : k \in 1..MaxTasks}}
Scalars == {None, Str("CS"), Str("")} \cup {Atom(a) : a \in ArgAtoms}

\* values: Any
ArgValues == Scalars \cup FlatLists \cup NestedLists

NoCall == [made |-> FALSE, values |-> None, num_task |-> 0, is_list |-> FALSE,
           default_none |-> FALSE, result |-> None]

ParseCall(values, num_task, is_list, default_none) ==
    /\ call' = [made |-> TRUE, values |-> values, num_task |-> num_task,
                is_list |-> is_list, default_none |-> default_none,
                result |-> ParseInputArgs(values, num_task, is_list, default_none)]
    /\ UNCHANGED <<wrapper, item, len_result>>
    /\ UNCHANGED tvars

\* ------------------------------------------------ GOFAPretrainTaskWrapper
\* Dataset names: __get_pretrain_task__ implements a task for the first only.
DatasetNames == {"arxiv", "unknown_ds"}
ImplementedNames == {"ultrachat200k", "mag240m", "arxiv", "products", "wikics",
                     "cora", "cora_node", "pubmed", "pubmed_node"}
CallableNames == {"f"}

\* isinstance(post_funcs, Callable)
IsCallable(v) == v.kind = "atom" /\ v.atom \in CallableNames

TaskNameInputs ==
    {Str(d) : d \in DatasetNames} \cup
    {List(s) : s \in UNION {[1..k -> {Str(d) : d \in DatasetNames}] : k \in 0..MaxTasks}}

\* Constructor arguments: the defaults, and one argument at a time set to
\* something else.  The arguments left out here (root, split, save_data, ...)
\* are parsed exactly as hop is, and the defaults of all of them broadcast.
DefaultArgs == [post_funcs |-> None, hop |-> Atom("3"), subset_ranges |-> None,
                pretrain_tasks |-> List(<<Str("CS")>>)]
ArgChoices ==
    {DefaultArgs}
    \cup {[DefaultArgs EXCEPT !.post_funcs = v] :
            v \in {Atom("f"), List(<<Atom("f")>>), List(<<List(<<Atom("f")>>), List(<<>>)>>)}}
    \cup {[DefaultArgs EXCEPT !.hop = v] :
            v \in {List(<<Atom("2"), Atom("3")>>)}}
    \cup {[DefaultArgs EXCEPT !.subset_ranges = v] :
            v \in {List(<<Atom("0"), Atom("9")>>),
                   List(<<List(<<Atom("0"), Atom("9")>>), List(<<Atom("0"), Atom("5")>>)>>)}}
    \cup {[DefaultArgs EXCEPT !.pretrain_tasks = v] :
            v \in {List(<<Str("CS"), Str("DS")>>),
                   List(<<List(<<Str("CS")>>), List(<<Str("DS")>>), List(<<Str("CS")>>)>>)}}

NoWrapper == [state |-> "unconstructed", error |-> "", num_tasks |-> 0, task_names |-> None,
              post_funcs |-> None, hops |-> None, subset_ranges |-> None, pretrain_tasks |-> None,
              task_sizes |-> <<>>, ind2task |-> <<>>, sample_ind |-> <<>>,
              size_seg |-> <<>>, data_start_index |-> <<>>]

FailedWrapper(cls) == [NoWrapper EXCEPT !.state = "failed", !.error = cls]

\* GOFAPretrainTaskWrapper.__init__ followed by GOFATaskWrapper.__init__;
\* sizes are the lengths of the tasks that __get_task_list__ builds.
NewWrapper(task_names_in, args, sizes) ==
    LET task_names == IF IsStr(task_names_in) THEN List(<<task_names_in>>) ELSE task_names_in
        num_tasks == Len(task_names.items)
        subset_ranges == ParseInputArgs(args.subset_ranges, num_tasks, TRUE, TRUE)
        pretrain_tasks == ParseInputArgs(args.pretrain_tasks, num_tasks, TRUE, FALSE)
        post_funcs_in == IF IsCallable(args.post_funcs) THEN List(<<args.post_funcs>>)
                         ELSE args.post_funcs
        post_funcs == ParseInputArgs(post_funcs_in, num_tasks, TRUE, TRUE)
        hops == ParseInputArgs(args.hop, num_tasks, FALSE, FALSE)
    IN  IF IsRaised(subset_ranges) THEN FailedWrapper(subset_ranges.atom)
        ELSE IF IsRaised(pretrain_tasks) THEN FailedWrapper(pretrain_tasks.atom)
        ELSE IF IsRaised(post_funcs) THEN FailedWrapper(post_funcs.atom)
        ELSE IF IsRaised(hops) THEN FailedWrapper(hops.atom)
        ELSE IF \E i \in 1..num_tasks : task_names.items[i].atom \notin ImplementedNames
        THEN FailedWrapper("NotImplementedError")
        \* with no task, task_sizes is an empty float array: repeat() rejects
        \* it, and np.concatenate of no arrays would raise as well
        ELSE IF num_tasks = 0 THEN FailedWrapper("TypeError")
        ELSE [state |-> "constructed", error |-> "", num_tasks |-> num_tasks,
              task_names |-> task_names, post_funcs |-> post_funcs, hops |-> hops,
              subset_ranges |-> subset_ranges, pretrain_tasks |-> pretrain_tasks,
              task_sizes |-> sizes, ind2task |-> Ind2Task(sizes),
              sample_ind |-> SampleInd(sizes), size_seg |-> SizeSeg(sizes),
              data_start_index |-> DataStartIndex(sizes)]

NumTasksOf(task_names_in) == IF IsStr(task_names_in) THEN 1 ELSE Len(task_names_in.items)

NoItem == [kind |-> "none", index |-> 0, task_idx |-> 0, sample |-> 0]

Construct(task_names_in, args, sizes) ==
    /\ wrapper.state = "unconstructed"
    /\ wrapper' = NewWrapper(task_names_in, args, sizes)
    /\ UNCHANGED <<call, item, len_result>>
    /\ UNCHANGED tvars

\* a[index] of a numpy array: a negative index counts from the end
ArrayAt(a, index) ==
    IF index >= 0 /\ index < Len(a) THEN a[index + 1]
    ELSE IF index < 0 /\ index >= -Len(a) THEN a[Len(a) + index + 1]
    ELSE -1
InRange(a, index) == index < Len(a) /\ index >= -Len(a)

\* GOFATaskWrapper.__getitem__: the sample is asked of task task_ind at
\* position sample_ind[index], and is tagged with task_idx
GetItemResult(w, index) ==
    IF ~InRange(w.ind2task, index) THEN [NoItem EXCEPT !.kind = "IndexError", !.index = index]
    ELSE [kind |-> "data", index |-> index, task_idx |-> ArrayAt(w.ind2task, index),
          sample |-> ArrayAt(w.sample_ind, index)]

GetItem(index) ==
    /\ wrapper.state = "constructed"
    /\ item' = GetItemResult(wrapper, index)
    /\ UNCHANGED <<call, wrapper, len_result>>
    /\ UNCHANGED tvars

\* GOFATaskWrapper.__len__
WrapperLen(w) == Sum(w.task_sizes)

LenCall ==
    /\ wrapper.state = "constructed"
    /\ len_result' = WrapperLen(wrapper)
    /\ UNCHANGED <<call, wrapper, item>>
    /\ UNCHANGED tvars

\* ---------------------------------------------------------------- ExpConfig
\* lr_scheduler arguments: None (the default), a scheduler dict whose
\* scheduler has T_max (cosine annealing), and one whose scheduler has not.
SchedulerInputs == {"None", "cosine", "step"}

NoConfig == [state |-> "unconstructed", error |-> "", lr_scheduler |-> "None",
             train_state_name |-> None, val_state_name |-> None, test_state_name |-> None,
             dataset_callback |-> FALSE]

\* the three property setters: isinstance(value, str) wraps the value in a list
StateNameSetterRaw(value) == value
StateNameSetter(value) == IF IsStr(value) THEN List(<<value>>) ELSE value

\* ExpConfig.__init__; dataset_callback is TRUE when a callback is given
NewExpConfig(lr_scheduler, dataset_callback) ==
    \* line 18 subscripts lr_scheduler and reads T_max of its scheduler
    IF lr_scheduler = "None"
    THEN [NoConfig EXCEPT !.state = "failed", !.error = "TypeError"]
    ELSE IF lr_scheduler = "step"
    THEN [NoConfig EXCEPT !.state = "failed", !.error = "AttributeError",
                          !.lr_scheduler = lr_scheduler]
    ELSE [state |-> "constructed", error |-> "", lr_scheduler |-> lr_scheduler,
          train_state_name |-> StateNameSetter(List(<<Str("train_eval")>>)),
          val_state_name |-> StateNameSetter(List(<<Str("valid")>>)),
          test_state_name |-> StateNameSetter(List(<<Str("test")>>)),
          dataset_callback |-> dataset_callback]

\* Values assigned to the state-name properties: Union[str, List[str]]
StateNames == {"train_eval", "valid", "test"}
AssignedNames == {"valid", "test"}
StateNameValues ==
    {Str(n) : n \in AssignedNames} \cup
    {List(s) : s \in UNION {[1..k -> {Str(n) : n \in AssignedNames}] : k \in 0..2}}

NoSet == [field |-> "", value |-> None]
NoOptim == [made |-> FALSE, keys |-> {}]

ConstructConfig(lr_scheduler, dataset_callback) ==
    /\ cfg.state = "unconstructed"
    /\ cfg' = NewExpConfig(lr_scheduler, dataset_callback)
    /\ UNCHANGED <<last_set, optim, kit, trainer, last_step, calls>>
    /\ UNCHANGED wvars

SetTrainStateName(value) ==
    /\ cfg.state = "constructed"
    /\ cfg' = [cfg EXCEPT !.train_state_name = StateNameSetter(value)]
    /\ last_set' = [field |-> "train_state_name", value |-> value]
    /\ UNCHANGED <<optim, kit, trainer, last_step, calls>>
    /\ UNCHANGED wvars

SetValStateName(value) ==
    /\ cfg.state = "constructed"
    /\ cfg' = [cfg EXCEPT !.val_state_name = StateNameSetter(value)]
    /\ last_set' = [field |-> "val_state_name", value |-> value]
    /\ UNCHANGED <<optim, kit, trainer, last_step, calls>>
    /\ UNCHANGED wvars

SetTestStateName(value) ==
    /\ cfg.state = "constructed"
    /\ cfg' = [cfg EXCEPT !.test_state_name = StateNameSetter(value)]
    /\ last_set' = [field |-> "test_state_name", value |-> value]
    /\ UNCHANGED <<optim, kit, trainer, last_step, calls>>
    /\ UNCHANGED wvars

\* BaseTemplate.configure_optimizers: the keys of the returned dict
OptimizerDictKeys(c) ==
    {"optimizer"} \cup (IF c.lr_scheduler # "None" THEN {"lr_scheduler"} ELSE {})

ConfigureOptimizers ==
    /\ cfg.state = "constructed"
    /\ optim' = [made |-> TRUE, keys |-> OptimizerDictKeys(cfg)]
    /\ UNCHANGED <<cfg, last_set, kit, trainer, last_step, calls>>
    /\ UNCHANGED wvars

\* ------------------------------------------------------------------ EvalKit
\* The evaluation kit keeps, for every eval state it has, what eval_step
\* accumulated since the last eval_reset; eval_epoch turns it into a metric.
Tensor(v, dev) == [kind |-> "tensor", value |-> v, device |-> dev]
NoMetric == [kind |-> "none", value |-> 0, device |-> ""]

NewKit(states) == [states |-> states, acc |-> [n \in StateNames |-> 0]]

HasEvalState(k, name) == name \in k.states
EvalStep(k, name) == [k EXCEPT !.acc[name] = @ + 1]
EvalEpoch(k, name) == Tensor(k.acc[name], "cuda")
EvalReset(k, name) == [k EXCEPT !.acc[name] = 0]

\* metric.cpu()
Cpu(t) == [t EXCEPT !.device = "cpu"]

\* ------------------------------------------------------------- BaseTemplate
Event(op, name, metric, arg) == [op |-> op, name |-> name, metric |-> metric, arg |-> arg]

\* BaseTemplate.epoch_post_process(epoch_name): the kit afterwards, the calls
\* made on the collaborators, and the value returned
EpochPostProcessNoReset(k, epoch_name) ==
    IF HasEvalState(k, epoch_name)
    THEN LET metric == EvalEpoch(k, epoch_name)
         IN  [kit |-> k,
              events |-> <<Event("eval_epoch", epoch_name, metric, <<>>),
                           Event("log", epoch_name, metric, <<>>)>>,
              result |-> metric]
    ELSE [kit |-> k, events |-> <<>>, result |-> NoMetric]

EpochPostProcess(k, epoch_name) ==
    IF HasEvalState(k, epoch_name)
    THEN LET metric == EvalEpoch(k, epoch_name)
         IN  [kit |-> EvalReset(k, epoch_name),
              events |-> <<Event("eval_epoch", epoch_name, metric, <<>>),
                           Event("log", epoch_name, metric, <<>>),
                           Event("eval_reset", epoch_name, NoMetric, <<>>)>>,
              result |-> metric]
    ELSE [kit |-> k, events |-> <<>>, result |-> NoMetric]

\* for name in <state names>: self.epoch_post_process(name)
RECURSIVE PostProcessAll(_, _)
PostProcessAll(k, names) ==
    IF Len(names) = 0 THEN [kit |-> k, events |-> <<>>, results |-> <<>>]
    ELSE LET first == EpochPostProcess(k, names[1].atom)
             rest == PostProcessAll(first.kit, Tail(names))
         IN  [kit |-> rest.kit, events |-> first.events \o rest.events,
              results |-> <<first.result>> \o rest.results]

\* cur_metric of on_validation_epoch_end: the results that are not None, on cpu
RECURSIVE CurMetric(_)
CurMetricAll(results) == [i \in 1..Len(results) |-> Cpu(results[i])]
CurMetric(results) ==
    IF Len(results) = 0 THEN <<>>
    ELSE (IF results[1].kind # "none" THEN <<Cpu(results[1])>> ELSE <<>>)
         \o CurMetric(Tail(results))

NoCalls == [hook |-> "none", names |-> <<>>, before |-> NewKit({}), events |-> <<>>,
            results |-> <<>>]

HookCalls(hook, names, k, done, extra) ==
    [hook |-> hook, names |-> names, before |-> k, events |-> done.events \o extra,
     results |-> done.results]

\* failures of the forward pass / loss computation inside compute_results
OomMessages == {"CUDA out of memory. Tried to allocate 2.00 GiB"}
Exc(cls, runtime, msg) == [cls |-> cls, runtime |-> runtime, msg |-> msg]
NoExc == Exc("", FALSE, "")
Failures ==
    {Exc("OutOfMemoryError", TRUE, "CUDA out of memory. Tried to allocate 2.00 GiB"),
     Exc("RuntimeError", TRUE, "CUDA out of memory. Tried to allocate 2.00 GiB"),
     Exc("RuntimeError", TRUE, "mat1 and mat2 shapes cannot be multiplied"),
     Exc("ValueError", FALSE, "CUDA out of memory. Tried to allocate 2.00 GiB"),
     Exc("MemoryError", FALSE, "")}
Losses == {0, 1}
NotCalled == [called |-> FALSE, ok |-> FALSE, loss |-> -1, exc |-> NoExc]
Outcomes ==
    {[called |-> TRUE, ok |-> TRUE, loss |-> l, exc |-> NoExc] : l \in Losses} \cup
    {[called |-> TRUE, ok |-> FALSE, loss |-> -1, exc |-> e] : e \in Failures}

\* "out of memory" in str(e)
MentionsOom(e) == e.msg \in OomMessages

\* self.compute_results(batch, batch_idx, <state names>[dataloader_idx]):
\* the subscript fails first when the index is out of range; out is what the
\* forward pass and the loss computation do on this batch
ComputeResults(k, state_names, dataloader_idx, out) ==
    IF dataloader_idx >= Len(state_names.items)
    THEN [kit |-> k, compute |-> NotCalled, loss |-> -1,
          exc |-> Exc("IndexError", FALSE, "list index out of range")]
    ELSE IF ~out.ok
    THEN [kit |-> k, compute |-> out, loss |-> -1, exc |-> out.exc]
    ELSE LET step_name == state_names.items[dataloader_idx + 1].atom
         IN  [kit |-> IF HasEvalState(k, step_name) THEN EvalStep(k, step_name) ELSE k,
              compute |-> out, loss |-> out.loss, exc |-> NoExc]

NoStep == [hook |-> "none", kind |-> "none", loss |-> -1, exc |-> NoExc, compute |-> NotCalled]

Running == [state |-> "running", error |-> NoExc]
Crashed(e) == [state |-> "crashed", error |-> e]

\* the accumulators stay within the bound of the model
WithinEpoch(k) == \A n \in StateNames : k.acc[n] <= MaxEpochSteps

\* BaseTemplate.training_step: what the step returns or raises
TrainingStepSwallowAll(r) ==
    IF r.exc = NoExc
    THEN [hook |-> "training_step", kind |-> "return", loss |-> r.loss, exc |-> NoExc,
          compute |-> r.compute]
    ELSE IF r.exc.runtime
    THEN [hook |-> "training_step", kind |-> "return", loss |-> 0, exc |-> NoExc,
          compute |-> r.compute]
    ELSE [hook |-> "training_step", kind |-> "raise", loss |-> -1, exc |-> r.exc,
          compute |-> r.compute]

TrainingStepRaiseAll(r) ==
    IF r.exc = NoExc
    THEN [hook |-> "training_step", kind |-> "return", loss |-> r.loss, exc |-> NoExc,
          compute |-> r.compute]
    ELSE [hook |-> "training_step", kind |-> "raise", loss |-> -1, exc |-> r.exc,
          compute |-> r.compute]

TrainingStepResult(r) ==
    IF r.exc = NoExc
    THEN [hook |-> "training_step", kind |-> "return", loss |-> r.loss, exc |-> NoExc,
          compute |-> r.compute]
    ELSE IF r.exc.runtime /\ MentionsOom(r.exc)
    THEN \* print("Ignoring OOM batch"); loss = torch.tensor([0])
         [hook |-> "training_step", kind |-> "return", loss |-> 0, exc |-> NoExc,
          compute |-> r.compute]
    ELSE [hook |-> "training_step", kind |-> "raise", loss |-> -1, exc |-> r.exc,
          compute |-> r.compute]

\* validation_step and test_step: no handler, the step returns None
EvalStepResult(hook, r) ==
    IF r.exc = NoExc
    THEN [hook |-> hook, kind |-> "return", loss |-> -1, exc |-> NoExc, compute |-> r.compute]
    ELSE [hook |-> hook, kind |-> "raise", loss |-> -1, exc |-> r.exc, compute |-> r.compute]

TrainingStep(dataloader_idx, out) ==
    /\ trainer.state = "running"
    /\ LET r == ComputeResults(kit, cfg.train_state_name, dataloader_idx, out)
           res == TrainingStepResult(r)
       IN  /\ WithinEpoch(r.kit)
           /\ kit' = r.kit
           /\ last_step' = res
           /\ trainer' = IF res.kind = "raise" THEN Crashed(res.exc) ELSE Running
    /\ calls' = NoCalls
    /\ UNCHANGED <<cfg, last_set, optim>>
    /\ UNCHANGED wvars

ValidationStep(dataloader_idx, out) ==
    /\ trainer.state = "running"
    /\ LET r == ComputeResults(kit, cfg.val_state_name, dataloader_idx, out)
           res == EvalStepResult("validation_step", r)
       IN  /\ WithinEpoch(r.kit)
           /\ kit' = r.kit
           /\ last_step' = res
           /\ trainer' = IF res.kind = "raise" THEN Crashed(res.exc) ELSE Running
    /\ calls' = NoCalls
    /\ UNCHANGED <<cfg, last_set, optim>>
    /\ UNCHANGED wvars

TestStep(dataloader_idx, out) ==
    /\ trainer.state = "running"
    /\ LET r == ComputeResults(kit, cfg.test_state_name, dataloader_idx, out)
           res == EvalStepResult("test_step", r)
       IN  /\ WithinEpoch(r.kit)
           /\ kit' = r.kit
           /\ last_step' = res
           /\ trainer' = IF res.kind = "raise" THEN Crashed(res.exc) ELSE Running
    /\ calls' = NoCalls
    /\ UNCHANGED <<cfg, last_set, optim>>
    /\ UNCHANGED wvars

\* the dataset_callback call of on_validation_epoch_end, if a callback is set
CallbackEvents(c, results) ==
    IF c.dataset_callback
    THEN <<Event("dataset_callback", "", NoMetric, CurMetric(results))>>
    ELSE <<>>

OnTrainEpochEnd ==
    /\ trainer.state = "running"
    /\ LET done == PostProcessAll(kit, cfg.train_state_name.items)
       IN  /\ kit' = done.kit
           /\ calls' = HookCalls("on_train_epoch_end", cfg.train_state_name.items, kit, done, <<>>)
    /\ last_step' = NoStep
    /\ UNCHANGED <<cfg, last_set, optim, trainer>>
    /\ UNCHANGED wvars

OnValidationEpochEnd ==
    /\ trainer.state = "running"
    /\ LET done == PostProcessAll(kit, cfg.val_state_name.items)
       IN  /\ kit' = done.kit
           /\ calls' = HookCalls("on_validation_epoch_end", cfg.val_state_name.items, kit,
                                 done, CallbackEvents(cfg, done.results))
    /\ last_step' = NoStep
    /\ UNCHANGED <<cfg, last_set, optim, trainer>>
    /\ UNCHANGED wvars

OnTestEpochEnd ==
    /\ trainer.state = "running"
    /\ LET done == PostProcessAll(kit, cfg.test_state_name.items)
       IN  /\ kit' = done.kit
           /\ calls' = HookCalls("on_test_epoch_end", cfg.test_state_name.items, kit, done, <<>>)
    /\ last_step' = NoStep
    /\ UNCHANGED <<cfg, last_set, optim, trainer>>
    /\ UNCHANGED wvars

\* ------------------------------------------------------------ specifications
WrapperIdle == /\ call = NoCall /\ wrapper = NoWrapper /\ item = NoItem /\ len_result = -1
TemplateIdle ==
    /\ cfg = NoConfig /\ last_set = NoSet /\ kit = NewKit({}) /\ trainer = Running
    /\ last_step = NoStep /\ calls = NoCalls /\ optim = NoOptim

\* argument broadcasting, as a function of its arguments
InitArgs == WrapperIdle /\ TemplateIdle
NextArgs ==
    \E is_list \in BOOLEAN, default_none \in BOOLEAN, num_task \in 0..MaxTasks :
        \E values \in ArgValues :
            ParseCall(values, num_task, is_list, default_none)
SpecArgs == InitArgs /\ [][NextArgs]_vars

\* the multi-task wrapper: construction, indexing, length
Init == WrapperIdle /\ TemplateIdle
Next ==
    \/ \E task_names \in TaskNameInputs, args \in ArgChoices :
          \E sizes \in [1..NumTasksOf(task_names) -> 0..MaxSize] :
              Construct(task_names, args, sizes)
    \/ \E index \in -1..(MaxTasks * MaxSize + 1) :
          /\ index <= Len(wrapper.ind2task)
          /\ GetItem(index)
    \/ LenCall
Spec == Init /\ [][Next]_vars

\* the experiment configuration: construction, the setters, the optimizers
InitConfig == WrapperIdle /\ TemplateIdle
NextConfig ==
    \/ \E lr_scheduler \in SchedulerInputs, dataset_callback \in BOOLEAN :
          ConstructConfig(lr_scheduler, dataset_callback)
    \/ \E value \in StateNameValues : SetTrainStateName(value)
    \/ \E value \in StateNameValues : SetValStateName(value)
    \/ \E value \in StateNameValues : SetTestStateName(value)
    \/ ConfigureOptimizers
SpecConfig == InitConfig /\ [][NextConfig]_vars

\* the training loop driving a BaseTemplate built on a constructed config
NameList(s) == List([i \in 1..Len(s) |-> Str(s[i])])
TemplateConfigs ==
    {[NewExpConfig("cosine", cb) EXCEPT !.train_state_name = StateNameSetter(tr),
                                        !.val_state_name = StateNameSetter(va),
                                        !.test_state_name = StateNameSetter(te)] :
        cb \in BOOLEAN,
        tr \in {NameList(<<"train_eval">>), Str("valid")},
        va \in {NameList(<<"valid">>), NameList(<<>>), NameList(<<"valid", "test">>),
                NameList(<<"test", "valid">>), NameList(<<"valid", "valid">>)},
        te \in {NameList(<<"test">>), NameList(<<>>)}}
InitTemplate ==
    /\ WrapperIdle
    /\ cfg \in TemplateConfigs
    /\ kit \in {NewKit(states) : states \in SUBSET StateNames}
    /\ last_set = NoSet /\ trainer = Running /\ last_step = NoStep
    /\ calls = NoCalls /\ optim = NoOptim
NextTemplate ==
    \/ \E dataloader_idx \in 0..1, out \in Outcomes : TrainingStep(dataloader_idx, out)
    \/ \E dataloader_idx \in 0..1, out \in Outcomes : ValidationStep(dataloader_idx, out)
    \/ \E dataloader_idx \in 0..1, out \in Outcomes : TestStep(dataloader_idx, out)
    \/ OnTrainEpochEnd
    \/ OnValidationEpochEnd
    \/ OnTestEpochEnd
SpecTemplate == InitTemplate /\ [][NextTemplate]_vars

\* ------------------------------------------------------------------- claims

\* position (0-based) of the first sample of task t (0-based) in the flat index
StartOf(sizes, t) == Sum(SubSeq(sizes, 1, t))

\* C1: in a constructed wrapper the flat index is a bijection between the
\* global indices 0..len-1 and the pairs (t, k), 0 <= k < task_sizes[t], in
\* the order of the concatenated per-task ranges (tasks of size 0 take no
\* index), and __getitem__ asks task ind2task[g] for sample sample_ind[g].
C1_FlatIndexBijection ==
    wrapper.state = "constructed" =>
        LET sizes == wrapper.task_sizes
            total == Sum(sizes)
        IN  /\ Len(wrapper.ind2task) = total
            /\ Len(wrapper.sample_ind) = total
            /\ \A t \in 0..(Len(sizes) - 1) : \A k \in 0..(sizes[t + 1] - 1) :
                  /\ wrapper.ind2task[StartOf(sizes, t) + k + 1] = t
                  /\ wrapper.sample_ind[StartOf(sizes, t) + k + 1] = k
            /\ \A g \in 1..total :
                  /\ wrapper.ind2task[g] \in 0..(Len(sizes) - 1)
                  /\ wrapper.sample_ind[g] \in 0..(sizes[wrapper.ind2task[g] + 1] - 1)
                  /\ \A h \in 1..total :
                        (wrapper.ind2task[g] = wrapper.ind2task[h]
                         /\ wrapper.sample_ind[g] = wrapper.sample_ind[h]) => g = h
            /\ (item.kind = "data" /\ item.index >= 0) =>
                  /\ item.task_idx = wrapper.ind2task[item.index + 1]
                  /\ item.sample = wrapper.sample_ind[item.index + 1]
                  /\ item.index = StartOf(sizes, item.task_idx) + item.sample

C1_Witness ==
    /\ wrapper.state = "constructed"
    /\ wrapper.task_sizes = <<2, 0, 1>>
    /\ item.kind = "data" /\ item.index = 2 /\ item.task_idx = 2 /\ item.sample = 0

\* C2: len(wrapper) is the sum of task_sizes and the length of ind2task and
\* of sample_ind, and a non-negative index is accepted by the flat index
\* exactly when it is below len(wrapper).
C2_LenIsSumOfSizes ==
    wrapper.state = "constructed" =>
        /\ WrapperLen(wrapper) = Len(wrapper.ind2task)
        /\ WrapperLen(wrapper) = Len(wrapper.sample_ind)
        /\ len_result # -1 =>
              /\ len_result = Sum(wrapper.task_sizes)
              /\ len_result = Len(wrapper.ind2task)
              /\ len_result = Len(wrapper.sample_ind)
              /\ (item.kind # "none" /\ item.index >= 0) =>
                    (item.kind = "data" <=> item.index < len_result)

C2_Witness ==
    /\ wrapper.state = "constructed"
    /\ \E t \in 1..Len(wrapper.task_sizes) : wrapper.task_sizes[t] = 0
    /\ len_result = 3
    /\ item.kind = "IndexError" /\ item.index = 3

\* the result of a call is num_task entries, each the value passed
Broadcast ==
    /\ IsList(call.result)
    /\ Len(call.result.items) = call.num_task
    /\ \A i \in 1..call.num_task : call.result.items[i] = call.values

ListRule ==
    /\ Len(call.values.items) # call.num_task => IsRaised(call.result)
    /\ Len(call.values.items) = call.num_task => call.result = call.values

\* C4 as stated: in either mode a supplied list of another length than the
\* number of tasks raises, and one of that length is returned unchanged.
C4_ListLengthEitherMode == (call.made /\ IsList(call.values)) => ListRule

\* C4 as amended: the rule holds with is_list false, and with is_list true
\* for a list whose first entry is a list; with is_list true a non-empty
\* list whose first entry is not a list is replicated whole to every task
\* whatever its length, and an empty list raises.
C4_ListLengthPerTaskLists ==
    (call.made /\ IsList(call.values)) =>
        IF ~call.is_list THEN ListRule
        ELSE IF Len(call.values.items) = 0 THEN IsRaised(call.result)
        ELSE IF IsList(call.values.items[1]) THEN ListRule
        ELSE Broadcast

C4_Witness ==
    /\ call.made /\ call.is_list /\ call.num_task = 3
    /\ call.values = List(<<List(<<Atom("3")>>), List(<<>>)>>)
    /\ call.result = Raised("AssertionError")

\* C5: in a constructed ExpConfig the three state-name fields are lists; a
\* single name assigned last is stored as the one-element list holding it,
\* a list assigned last is stored as that list.
FieldOf(c, field) ==
    IF field = "train_state_name" THEN c.train_state_name
    ELSE IF field = "val_state_name" THEN c.val_state_name
    ELSE c.test_state_name

C5_StateNamesAreLists ==
    cfg.state = "constructed" =>
        /\ IsList(cfg.train_state_name)
        /\ IsList(cfg.val_state_name)
        /\ IsList(cfg.test_state_name)
        /\ last_set.field # "" =>
              /\ ~IsList(last_set.value) =>
                    FieldOf(cfg, last_set.field).items = <<last_set.value>>
              /\ IsList(last_set.value) =>
                    FieldOf(cfg, last_set.field) = last_set.value

C5_Witness ==
    /\ cfg.state = "constructed"
    /\ last_set = [field |-> "val_state_name", value |-> Str("test")]
    /\ cfg.val_state_name = List(<<Str("test")>>)
    /\ cfg.train_state_name = List(<<Str("valid"), Str("test")>>)

\* an out-of-memory failure as torch reports it
OutOfMemoryFailure(e) ==
    /\ e.cls \in {"OutOfMemoryError", "RuntimeError"}
    /\ e.msg \in OomMessages

C7_OtherFailuresPropagate ==
    (last_step.hook = "training_step" /\ last_step.compute.called) =>
        /\ (~last_step.compute.ok /\ ~OutOfMemoryFailure(last_step.compute.exc)) =>
              /\ last_step.kind = "raise"
              /\ last_step.exc = last_step.compute.exc
              /\ last_step.loss = -1
              /\ trainer = Crashed(last_step.compute.exc)
        /\ last_step.compute.ok =>
              /\ last_step.kind = "return"
              /\ last_step.loss = last_step.compute.loss

C7_Witness ==
    /\ last_step.hook = "training_step"
    /\ last_step.kind = "raise"
    /\ last_step.exc = Exc("RuntimeError", TRUE, "mat1 and mat2 shapes cannot be multiplied")
    /\ trainer.state = "crashed"

\* C8: an ExpConfig constructed without a scheduler exists, and the dict of
\* configure_optimizers has 'optimizer' always and 'lr_scheduler' exactly
\* when the scheduler is not None.
C8_SchedulerOptional ==
    /\ (cfg.state # "unconstructed" /\ cfg.lr_scheduler = "None") => cfg.state = "constructed"
    /\ optim.made =>
          /\ "optimizer" \in optim.keys
          /\ "lr_scheduler" \in optim.keys <=> cfg.lr_scheduler # "None"

\* the epoch-end hooks
EpochEnds == {"on_train_epoch_end", "on_validation_epoch_end", "on_test_epoch_end"}
\* the calls of epoch_post_process among the calls of a hook
PostProcessEvents == SelectSeq(calls.events, LAMBDA e : e.op # "dataset_callback")
\* whether the i-th processed name has an eval state, and how many up to it have
Evaluated(i) == calls.names[i].atom \in calls.before.states
Rank(i) == Cardinality({j \in 1..i : Evaluated(j)})

\* C9: after an epoch-end hook, each processed name with an eval state has
\* had eval_epoch, then the log of that metric, then eval_reset, once each
\* and in the order of the names, and the metric was returned; a name with
\* no eval state had no call and None returned; the eval states processed
\* are reset.
C9_PostProcessOrder ==
    calls.hook \in EpochEnds =>
        LET ev == PostProcessEvents
            n == Len(calls.names)
        IN  /\ Len(ev) = 3 * Rank(n)
            /\ Len(calls.results) = n
            /\ \A i \in 1..n :
                  IF Evaluated(i)
                  THEN LET name == calls.names[i].atom
                           at == 3 * Rank(i) - 2
                       IN  /\ ev[at].op = "eval_epoch" /\ ev[at].name = name
                           /\ ev[at + 1].op = "log" /\ ev[at + 1].name = name
                           /\ ev[at + 1].metric = ev[at].metric
                           /\ ev[at + 2].op = "eval_reset" /\ ev[at + 2].name = name
                           /\ calls.results[i] = ev[at].metric
                           /\ calls.results[i].kind = "tensor"
                           /\ kit.acc[name] = 0
                  ELSE calls.results[i] = NoMetric
            /\ \A name \in StateNames :
                  (\A i \in 1..n : calls.names[i].atom # name) =>
                      kit.acc[name] = calls.before.acc[name]

C9_Witness ==
    /\ calls.hook = "on_test_epoch_end"
    /\ calls.names = <<Str("test")>>
    /\ calls.before.acc["test"] = MaxEpochSteps
    /\ calls.results = <<Tensor(MaxEpochSteps, "cuda")>>
    /\ kit.acc["test"] = 0
    /\ kit.acc["valid"] > 0

\* C10: after on_validation_epoch_end with a callback configured, the
\* callback was called once, as the last call, with the metrics (on cpu) of
\* the validation names that have an eval state, in their order; with no
\* callback configured it was not called.
C10_CallbackAfterPostProcess ==
    calls.hook = "on_validation_epoch_end" =>
        LET cb == SelectSeq(calls.events, LAMBDA e : e.op = "dataset_callback")
            n == Len(calls.names)
        IN  IF cfg.dataset_callback
            THEN /\ Len(cb) = 1
                 /\ calls.events[Len(calls.events)] = cb[1]
                 /\ Len(calls.events) = 3 * Rank(n) + 1
                 /\ Len(cb[1].arg) = Rank(n)
                 /\ \A i \in 1..n : Evaluated(i) =>
                       /\ cb[1].arg[Rank(i)].kind = "tensor"
                       /\ cb[1].arg[Rank(i)].value = calls.results[i].value
                       /\ cb[1].arg[Rank(i)].device = "cpu"
                       /\ kit.acc[calls.names[i].atom] = 0
            ELSE Len(cb) = 0

C10_Witness ==
    /\ calls.hook = "on_validation_epoch_end"
    /\ cfg.dataset_callback
    /\ calls.names = <<Str("test"), Str("valid")>>
    /\ calls.before.states = {"valid"}
    /\ calls.events[Len(calls.events)].arg = <<Tensor(1, "cpu")>>

====
